---- MODULE Spec2Model ----
(***************************************************************************)
(* Model of src/main.py: the LINE weather bot.                             *)
(*                                                                         *)
(*   Spec       the HTTP server handling one request at a time             *)
(*              (callback -> handle_message, trigger_weather ->            *)
(*              send_daily_weather_update), each handler one action.       *)
(*   SpecFetch  fetch_weather_data_with_retry, one step per statement.     *)
(*   SpecReg    register_user / unregister_user run by concurrently        *)
(*              handled chat events (read step, write step).               *)
(*   SpecRace   two pipeline runs (scheduled job, refresh) interleaved.    *)
(***************************************************************************)
EXTENDS Integers, Sequences, FiniteSets, TLC

(* ---------------------------- bounds ----------------------------------- *)
MaxUsers == 2
MaxStations == 1
MaxTime == 2
TicksPerSecond == 2
NumHandlers == 2
NumRuns == 2
MaxKids == 2
MaxRecords == 2

(* ------------------------- program constants --------------------------- *)
Retries == 3
WaitSeconds == 3

Users == 1..MaxUsers
None == "none"
Keys == {None, "k1", "k2"}
ConfiguredKeys == {None, "k1"}
Times == 0..MaxTime

(* The five cases of the exact text match in handle_message. *)
Texts == {"subscribe", "unsubscribe", "status", "refresh", "other"}

(* A rendered page that carries the "<Station" marker: well-formed XML with
   n Station elements ("<Stations>" alone also carries the marker, n = 0),
   or a document ET.fromstring rejects. *)
Payloads == [kind : {"page"}, wf : {TRUE}, n : 0..MaxStations]
            \cup {[kind |-> "page", wf |-> FALSE, n |-> 0]}

(* What one attempt of the fetch meets: webdriver.Chrome raises, driver.get
   raises, the page lacks the marker, or the page is a payload. *)
Failure(kind) == [kind |-> kind, wf |-> FALSE, n |-> 0]
AttemptOutcomes ==
    { Failure(k) : k \in {"create_fail", "load_fail", "no_sentinel"} }
    \cup Payloads
(* The upstream has an answer for one attempt more than the loop may make. *)
Plans == [1..(Retries + 1) -> AttemptOutcomes]

IsFailure(o) == o.kind # "page"

(* raise Exception("Failed to fetch weather data after retries") *)
Raise == Failure("raise")

(* ------------------------------ helpers -------------------------------- *)
InSeq(x, s) == \E i \in 1..Len(s) : s[i] = x

RECURSIVE RemoveFirst(_, _)
RemoveFirst(s, x) ==
    IF s = << >> THEN << >>
    ELSE IF Head(s) = x THEN Tail(s)
    ELSE << Head(s) >> \o RemoveFirst(Tail(s), x)

NoDup(s) == \A i, j \in 1..Len(s) : i # j => s[i] # s[j]
NoDupSeqs == UNION { { s \in [1..n -> Users] : NoDup(s) } : n \in 0..MaxUsers }

(* ------------------------- subscriber registry ------------------------- *)
(* The file is a sequence of lines, one identifier per line. *)
get_registered_users(f) == SelectSeq(f, LAMBDA line : line \in Users)

register_write_always(f, users, user_id) == Append(f, user_id)

(* open(..., "a") appends to the file as it is at the time of the write;
   users is what get_registered_users returned earlier. *)
register_write(f, users, user_id) ==
    IF ~InSeq(user_id, users) THEN Append(f, user_id) ELSE f

unregister_write_noop(f, users, user_id) == f

unregister_write_head(f, users, user_id) ==
    IF InSeq(user_id, users) THEN Tail(users) ELSE f

(* open(..., "w") replaces the file by the list that was read, less user_id. *)
unregister_write(f, users, user_id) ==
    IF InSeq(user_id, users) THEN RemoveFirst(users, user_id) ELSE f

register_user(f, user_id) == register_write(f, get_registered_users(f), user_id)
unregister_user(f, user_id) == unregister_write(f, get_registered_users(f), user_id)

(* ------------------------------- fetcher ------------------------------- *)
InRangeOneMore(attempt) == attempt <= Retries

(* for attempt in range(retries): the body runs for attempt = 0..retries-1. *)
InRange(attempt) == attempt < Retries

NotLastAttemptAlways(attempt) == TRUE

(* if attempt < retries - 1: time.sleep(wait_seconds) *)
NotLastAttempt(attempt) == attempt < Retries - 1

(* if "<Station" in page_source *)
SentinelFound(page) == ~IsFailure(page)

(* The value of fetch_weather_data_with_retry for an upstream that answers
   the attempt with loop index i by plan[i + 1]: the first page with the
   marker, else the raise after the loop. *)
RECURSIVE FetchFrom(_, _)
FetchFrom(plan, attempt) ==
    IF ~InRange(attempt) THEN Raise
    ELSE IF SentinelFound(plan[attempt + 1]) THEN plan[attempt + 1]
    ELSE FetchFrom(plan, attempt + 1)

fetch_weather_data_with_retry(plan) == FetchFrom(plan, 0)
fetch_weather_data(plan) == fetch_weather_data_with_retry(plan)
FetchResults == { fetch_weather_data(plan) : plan \in Plans }

(* ------------------------------ artifacts ------------------------------ *)
(* strftime("%Y-%m-%d_%H-%M-%S"): the name has one-second resolution. *)
Filename(t) == t \div TicksPerSecond

(* The local disk is a set of [name, data] files, one per name. *)
Exists(d, name) == \E x \in d : x.name = name
WriteFile(d, name, data) ==
    { x \in d : x.name # name } \cup { [name |-> name, data |-> data] }
RemoveIfExists(d, name) ==
    IF Exists(d, name) THEN { x \in d : x.name # name } ELSE d

(* parse_and_save_csv: ET.fromstring raises before the file is opened; a
   failing write raises after open(filename, 'w') created the file. *)
parse_and_save_csv(d, xml, filename, writeFails) ==
    IF ~xml.wf THEN [raised |-> TRUE, disk |-> d]
    ELSE [raised |-> writeFails, disk |-> WriteFile(d, filename, xml)]

(* upload_to_drive: MediaFileUpload needs the local file; files().create
   may fail, and permissions().create may fail after the file is on Drive. *)
UploadOutcomes == {"ok", "create_fail", "perm_fail"}
upload_to_drive(d, filename, up) ==
    IF ~Exists(d, filename) THEN [raised |-> TRUE, created |-> FALSE]
    ELSE [raised |-> up # "ok", created |-> up # "create_fail"]

RunPipelineNoFinally(d, filename, fetched, writeFails, up) ==
    IF fetched = Raise
    THEN [stage |-> "fetch", uploadCalls |-> 0, created |-> FALSE, disk |-> d]
    ELSE LET p == parse_and_save_csv(d, fetched, filename, writeFails) IN
         IF p.raised
         THEN [stage |-> "parse", uploadCalls |-> 0, created |-> FALSE,
               disk |-> p.disk]
         ELSE LET u == upload_to_drive(p.disk, filename, up) IN
              [stage |-> IF u.raised THEN "upload" ELSE "none",
               uploadCalls |-> 1, created |-> u.created,
               disk |-> IF u.raised THEN p.disk
                        ELSE RemoveIfExists(p.disk, filename)]

(* try: fetch, parse, upload / except Exception / finally: remove the file.
   Common to send_daily_weather_update and the refresh branch. *)
RunPipeline(d, filename, fetched, writeFails, up) ==
    IF fetched = Raise
    THEN [stage |-> "fetch", uploadCalls |-> 0, created |-> FALSE,
          disk |-> RemoveIfExists(d, filename)]
    ELSE LET p == parse_and_save_csv(d, fetched, filename, writeFails) IN
         IF p.raised
         THEN [stage |-> "parse", uploadCalls |-> 0, created |-> FALSE,
               disk |-> RemoveIfExists(p.disk, filename)]
         ELSE LET u == upload_to_drive(p.disk, filename, up) IN
              [stage |-> IF u.raised THEN "upload" ELSE "none",
               uploadCalls |-> 1, created |-> u.created,
               disk |-> RemoveIfExists(p.disk, filename)]

(* ------------------------------ notifier ------------------------------- *)
RECURSIVE PushEachAbort(_, _, _)
PushEachAbort(user_ids, kind, failSet) ==
    IF user_ids = << >> THEN << >>
    ELSE << [to |-> Head(user_ids), kind |-> kind,
             ok |-> Head(user_ids) \notin failSet] >>
         \o (IF Head(user_ids) \in failSet THEN << >>
             ELSE PushEachAbort(Tail(user_ids), kind, failSet))

(* for user_id in user_ids: try push_message except Exception: print. *)
RECURSIVE PushEach(_, _, _)
PushEach(user_ids, kind, failSet) ==
    IF user_ids = << >> THEN << >>
    ELSE << [to |-> Head(user_ids), kind |-> kind,
             ok |-> Head(user_ids) \notin failSet] >>
         \o PushEach(Tail(user_ids), kind, failSet)

send_to_registered_users(f, kind, failSet) ==
    [pushes |-> PushEach(get_registered_users(f), kind, failSet),
     raised |-> FALSE]

(* if count: a count of 0 is as falsy as None. *)
NoCount == -1
count_stations_in_weather_data(fetched) ==
    IF fetched = Raise THEN NoCount
    ELSE IF ~fetched.wf THEN NoCount
    ELSE fetched.n

Truthy(count) == count # NoCount /\ count # 0

(* ------------------------------ handlers ------------------------------- *)
NoName == -1
Reply(user_id, kind) == << [to |-> user_id, kind |-> kind] >>

(* What a handler did: the registry file and the disk it leaves, whether an
   exception left it, the calls it made and the messages it sent. *)
Effects(f, d, raised, fname, fetchCalls, run, replies, pushes) ==
    [file |-> f, disk |-> d, raised |-> raised, fname |-> fname,
     fetchCalls |-> fetchCalls, replies |-> replies, pushes |-> pushes]
    @@ [x \in {"uploadCalls", "created", "stage"} |-> run[x]]

NoRun == [stage |-> "none", uploadCalls |-> 0, created |-> FALSE]

handle_message(f, d, user_id, text, t, fetched, writeFails, up, regFails) ==
    CASE text = "subscribe" ->
           IF regFails
           THEN Effects(f, d, TRUE, NoName, 0,
                        [NoRun EXCEPT !.stage = "registry"], << >>, << >>)
           ELSE Effects(register_user(f, user_id), d, FALSE, NoName, 0, NoRun,
                        Reply(user_id, "subscribed"), << >>)
      [] text = "unsubscribe" ->
           IF regFails
           THEN Effects(f, d, TRUE, NoName, 0,
                        [NoRun EXCEPT !.stage = "registry"], << >>, << >>)
           ELSE Effects(unregister_user(f, user_id), d, FALSE, NoName, 0, NoRun,
                        Reply(user_id, "unsubscribed"), << >>)
      [] text = "status" ->
           LET count == count_stations_in_weather_data(fetched) IN
           Effects(f, d, FALSE, NoName, 1,
                   [NoRun EXCEPT !.stage =
                       IF fetched = Raise THEN "fetch"
                       ELSE IF ~fetched.wf THEN "parse" ELSE "none"],
                   Reply(user_id, IF Truthy(count) THEN "count"
                                  ELSE "status_error"),
                   << >>)
      [] text = "refresh" ->
           LET filename == Filename(t)
               run == RunPipeline(d, filename, fetched, writeFails, up) IN
           Effects(f, run.disk, FALSE, filename, 1, run,
                   Reply(user_id, IF run.stage = "none" THEN "link"
                                  ELSE "refresh_error"),
                   << >>)
      [] OTHER ->
           Effects(f, d, FALSE, NoName, 0, NoRun, Reply(user_id, "help"), << >>)

daily_update_uncaught(f, d, t, fetched, writeFails, up, failSet) ==
    LET filename == Filename(t)
        run == RunPipeline(d, filename, fetched, writeFails, up) IN
    IF run.stage # "none"
    THEN Effects(f, run.disk, TRUE, filename, 1, run, << >>, << >>)
    ELSE Effects(f, run.disk, FALSE, filename, 1, run, << >>,
                 send_to_registered_users(f, "daily_link", failSet).pushes)

send_daily_weather_update(f, d, t, fetched, writeFails, up, failSet) ==
    LET filename == Filename(t)
        run == RunPipeline(d, filename, fetched, writeFails, up)
        sent == send_to_registered_users(
                    f, IF run.stage = "none" THEN "daily_link"
                       ELSE "daily_error", failSet) IN
    Effects(f, run.disk, sent.raised, filename, 1, run, << >>, sent.pushes)

KeyMatchesAny(key, configured) == TRUE

(* if request.args.get("key") != WEATHER_TRIGGER_KEY: return 403 *)
KeyMatches(key, configured) == key = configured

(* ------------------------------- state --------------------------------- *)
VARIABLES
    file,         \* registered_users.txt: sequence of lines
    disk,         \* local artifact files
    cfgKey,       \* WEATHER_TRIGGER_KEY (None when unset)
    last,         \* the last HTTP request, its response and what it did
    plan, fpc, attempt, started, sessions, waits, result,  \* the fetch
    hpc, hcmd, huser, hsnap, file0,                        \* chat handlers
    now, kpc, kname, kxml, kstage, ksent,           \* pipeline runs
    owner, interference,     \* who wrote each file; cross-run accesses
    ktrace,                  \* the steps each run has taken, in order
    lastCmd,                 \* each user's last handled (un)subscribe
    doc, out, tpc            \* a feed document and the table built from it

srvVars == << file, disk, cfgKey, last >>
fetchVars == << plan, fpc, attempt, started, sessions, waits, result >>
regVars == << hpc, hcmd, huser, hsnap, file0 >>
raceVars ==
    << now, kpc, kname, kxml, kstage, ksent, owner, interference, ktrace >>
auxVars == << lastCmd, doc, out, tpc >>
vars == << srvVars, fetchVars, regVars, raceVars, auxVars >>

(* ------------------------- the server (Spec) --------------------------- *)
Request(ep, status, sigOK, key, user_id, text, e) ==
    [ep |-> ep, status |-> status, sigOK |-> sigOK, key |-> key,
     user |-> user_id, text |-> text, fileBefore |-> file]
    @@ [x \in {"raised", "fname", "fetchCalls", "uploadCalls", "created",
               "stage", "replies", "pushes"} |-> e[x]]

NoEffects == Effects(file, disk, FALSE, NoName, 0, NoRun, << >>, << >>)

(* POST /callback with one text message event in the body.  handler.handle
   verifies the signature before it dispatches the event; an exception that
   leaves handle_message other than InvalidSignatureError is a 500. *)
callback(sigOK, user_id, text, t, fetched, writeFails, up, regFails) ==
    /\ IF ~sigOK
       THEN /\ last' = Request("callback", 400, sigOK, None, user_id, text,
                               NoEffects)
            /\ UNCHANGED << file, disk >>
       ELSE LET e == handle_message(file, disk, user_id, text, t, fetched,
                                    writeFails, up, regFails) IN
            /\ file' = e.file
            /\ disk' = e.disk
            /\ last' = Request("callback", IF e.raised THEN 500 ELSE 200,
                               sigOK, None, user_id, text, e)
    /\ UNCHANGED << cfgKey, fetchVars, regVars, raceVars >>

(* GET /trigger-weather?key=... *)
trigger_weather(key, t, fetched, writeFails, up, failSet) ==
    /\ IF ~KeyMatches(key, cfgKey)
       THEN /\ last' = Request("trigger", 403, FALSE, key, 0, "none",
                               NoEffects)
            /\ UNCHANGED << file, disk >>
       ELSE LET e == send_daily_weather_update(file, disk, t, fetched,
                                               writeFails, up, failSet) IN
            /\ file' = e.file
            /\ disk' = e.disk
            /\ last' = Request("trigger", IF e.raised THEN 500 ELSE 200,
                               FALSE, key, 0, "none", e)
    /\ UNCHANGED << cfgKey, fetchVars, regVars, raceVars >>

(* The inputs a request can depend on, by the code path that reads them. *)
FetchInputs(used) == IF used THEN FetchResults ELSE {Raise}
WriteInputs(fetched) ==
    IF fetched # Raise /\ fetched.wf THEN BOOLEAN ELSE {FALSE}
UploadInputs(fetched, writeFails) ==
    IF fetched # Raise /\ fetched.wf /\ ~writeFails THEN UploadOutcomes
    ELSE {"ok"}
Recipients == { file[i] : i \in 1..Len(file) }

Callback ==
    \E sigOK \in BOOLEAN, user_id \in Users, text \in Texts :
    \E regFails \in IF sigOK /\ text \in {"subscribe", "unsubscribe"}
                    THEN BOOLEAN ELSE {FALSE} :
    \E t \in IF sigOK /\ text = "refresh" THEN Times ELSE {0} :
    \E fetched \in FetchInputs(sigOK /\ text \in {"status", "refresh"}) :
    \E writeFails \in IF text = "refresh" THEN WriteInputs(fetched)
                      ELSE {FALSE} :
    \E up \in IF text = "refresh" THEN UploadInputs(fetched, writeFails)
              ELSE {"ok"} :
        /\ callback(sigOK, user_id, text, t, fetched, writeFails, up,
                    regFails)
        /\ UNCHANGED auxVars

TriggerWeather ==
    \E key \in Keys :
    \E t \in IF KeyMatches(key, cfgKey) THEN Times ELSE {0} :
    \E fetched \in FetchInputs(KeyMatches(key, cfgKey)) :
    \E writeFails \in WriteInputs(fetched) :
    \E up \in UploadInputs(fetched, writeFails) :
    \E failSet \in IF KeyMatches(key, cfgKey) THEN SUBSET Recipients
                   ELSE {{}} :
        /\ trigger_weather(key, t, fetched, writeFails, up, failSet)
        /\ UNCHANGED auxVars

NoRequest ==
    [ep |-> "none", status |-> 0, sigOK |-> FALSE, key |-> None, user |-> 0,
     text |-> "none", fileBefore |-> << >>, raised |-> FALSE,
     fname |-> NoName, fetchCalls |-> 0, uploadCalls |-> 0,
     created |-> FALSE, stage |-> "none", replies |-> << >>,
     pushes |-> << >>]

InitSrv ==
    /\ file = << >>
    /\ disk = {}
    /\ cfgKey \in ConfiguredKeys
    /\ last = NoRequest

(* The parts a specification does not run stay as they are here. *)
FetchParked ==
    /\ plan = [i \in 1..(Retries + 1) |-> Failure("no_sentinel")]
    /\ fpc = "parked"
    /\ attempt = 0
    /\ started = 0
    /\ sessions = {}
    /\ waits = << >>
    /\ result = Failure("none")

RegParked ==
    /\ hpc = << >>
    /\ hcmd = << >>
    /\ huser = << >>
    /\ hsnap = << >>
    /\ file0 = << >>

RaceParked ==
    /\ now = 0
    /\ kpc = << >>
    /\ kname = << >>
    /\ kxml = << >>
    /\ kstage = << >>
    /\ ksent = << >>
    /\ owner = << >>
    /\ interference = {}
    /\ ktrace = << >>

AuxParked ==
    /\ lastCmd = << >>
    /\ doc = << >>
    /\ out = << >>
    /\ tpc = "parked"

Init == InitSrv /\ FetchParked /\ RegParked /\ RaceParked /\ AuxParked
Next == Callback \/ TriggerWeather
Spec == Init /\ [][Next]_vars

(* ---------------------- properties of the server ----------------------- *)
Count(s, x) == Cardinality({ i \in 1..Len(s) : s[i] = x })
To(msgs) == [i \in 1..Len(msgs) |-> msgs[i].to]
Handled == last.ep = "callback" /\ last.sigOK
Ran == last.ep = "trigger" /\ last.status # 403
PipelineFailed == last.stage \in {"fetch", "parse", "upload"}

(* C4: with messages handled one at a time and the registry file operation
   itself succeeding, after a subscribe the sender has exactly one entry
   (a repeated subscribe leaves the file as it was), and an unsubscribe from
   a sender who is not in the registry leaves the file unchanged and gets
   the normal confirmation with a 200. *)
C4_IdempotentSubscribe ==
    Handled /\ last.stage # "registry" =>
        /\ last.text = "subscribe" =>
              /\ Count(file, last.user) = 1
              /\ InSeq(last.user, last.fileBefore) => file = last.fileBefore
        /\ last.text = "unsubscribe" /\ ~InSeq(last.user, last.fileBefore) =>
              /\ file = last.fileBefore
              /\ last.replies = Reply(last.user, "unsubscribed")
              /\ last.status = 200

C4_Witness ==
    /\ Handled /\ last.text = "subscribe" /\ last.status = 200
    /\ InSeq(last.user, last.fileBefore)
    /\ Len(file) = 2

(* C5: every handled text message is answered by exactly one reply_message
   call and no exception leaves handle_message. *)
C5_ReplyExactlyOnce ==
    Handled => Len(last.replies) = 1 /\ ~last.raised

(* C6 as stated: a failed scheduled run raises nothing and pushes no failure
   message to the subscribers; a failed on-demand command notifies the
   requesting user only. *)
C6_ScheduledFailureSuppressed ==
    /\ Ran /\ PipelineFailed => ~last.raised /\ last.pushes = << >>
    /\ Handled /\ PipelineFailed =>
          To(last.replies) = << last.user >> /\ last.pushes = << >>

(* C6 amended: a failed scheduled run raises nothing and pushes the failure
   message once to every registered user, in list order; a failed on-demand
   command sends the failure text to the requesting user only. *)
C6_ScheduledFailureBroadcast ==
    /\ Ran /\ PipelineFailed =>
          /\ ~last.raised /\ last.status = 200
          /\ To(last.pushes) = get_registered_users(last.fileBefore)
          /\ \A i \in 1..Len(last.pushes) :
                 last.pushes[i].kind = "daily_error"
          /\ last.replies = << >>
    /\ Handled /\ PipelineFailed =>
          /\ ~last.raised
          /\ To(last.replies) = << last.user >>
          /\ last.replies[1].kind \in {"status_error", "refresh_error"}
          /\ last.pushes = << >>

C6_Witness ==
    Ran /\ last.stage = "upload" /\ Len(last.pushes) = 2

(* C7: after a scheduled run or a refresh, whether it succeeded or failed at
   the fetch, the parse or the upload, the artifact file named for the run
   is not on the local disk. *)
C7_ArtifactRemoved ==
    last.fname # NoName => ~Exists(disk, last.fname)

C7_Witness ==
    /\ Handled /\ last.text = "refresh" /\ last.stage = "upload"
    /\ last.uploadCalls = 1 /\ ~Exists(disk, last.fname)

(* C9: a broadcast attempts one push per registry entry, in list order,
   whichever of the pushes fail, and raises nothing. *)
C9_PushEveryRecipientOnce ==
    Ran => /\ To(last.pushes) = get_registered_users(last.fileBefore)
           /\ ~last.raised

C9_Witness ==
    /\ Ran /\ Len(last.pushes) = 2
    /\ ~last.pushes[1].ok /\ last.pushes[2].ok

(* C10: a trigger request whose key differs from the configured key gets a
   403 and fetches, uploads and pushes nothing; a callback with an invalid
   signature gets a 400, changes no registry entry and sends no reply; the
   pipeline runs from the trigger only on a key match. *)
C10_AuthFailureTerminal ==
    /\ last.ep = "trigger" /\ last.key # cfgKey =>
          /\ last.status = 403
          /\ last.fetchCalls = 0 /\ last.uploadCalls = 0
          /\ last.pushes = << >> /\ last.replies = << >>
    /\ last.ep = "callback" /\ ~last.sigOK =>
          /\ last.status = 400
          /\ file = last.fileBefore
          /\ last.replies = << >> /\ last.fetchCalls = 0
    /\ last.ep = "trigger" /\ last.fetchCalls > 0 => last.key = cfgKey

C10_Witness ==
    /\ last.ep = "trigger" /\ last.key = "k2" /\ cfgKey = "k1"
    /\ last.status = 403 /\ Len(file) = 2

(* C13: the status command replies with the station count exactly when the
   fetch and the parse succeeded, whatever the count, and with the error
   text exactly when one of them failed. *)
C13_StatusRepliesCount ==
    Handled /\ last.text = "status" =>
        /\ last.stage = "none" => last.replies = Reply(last.user, "count")
        /\ last.stage # "none" =>
              last.replies = Reply(last.user, "status_error")

Others(s, user_id) == SelectSeq(s, LAMBDA x : x # user_id)

(* C16: a request other than a handled subscribe or unsubscribe leaves the
   subscriber file as it was; an unrecognized text starts no fetch and no
   upload and gets the usage help; a subscribe or unsubscribe by a sender
   leaves the entries of every other identifier, and their order, as they
   were. *)
C16_RegistryFrame ==
    /\ ~(Handled /\ last.text \in {"subscribe", "unsubscribe"}) =>
          file = last.fileBefore
    /\ Handled /\ last.text = "other" =>
          /\ last.fetchCalls = 0 /\ last.uploadCalls = 0
          /\ last.replies = Reply(last.user, "help")
          /\ last.pushes = << >>
    /\ Handled /\ last.text \in {"subscribe", "unsubscribe"} =>
          Others(file, last.user) = Others(last.fileBefore, last.user)

C16_Witness ==
    /\ Handled /\ last.text = "unsubscribe" /\ last.status = 200
    /\ Len(last.fileBefore) = 2 /\ last.fileBefore[2] = last.user
    /\ file = << last.fileBefore[1] >>

(* C20: a trigger request without a key parameter never runs the pipeline,
   whether or not a trigger key is configured. *)
C20_NoKeyNeverRuns ==
    last.ep = "trigger" /\ last.key = None =>
        last.status = 403 /\ last.fetchCalls = 0

(* ---------------- fetch_weather_data_with_retry (SpecFetch) ------------ *)
(* One call, against an upstream that answers the attempt with loop index
   attempt by plan[attempt + 1].  sessions holds the attempts whose browser
   session is open; waits the attempts followed by a backoff sleep. *)
Upstream == plan[attempt + 1]

(* for attempt in range(retries): enter the body or fall out of the loop to
   the raise. *)
LoopHead ==
    /\ fpc = "loop"
    /\ IF InRange(attempt)
       THEN fpc' = "create" /\ started' = started + 1
       ELSE fpc' = "raised" /\ UNCHANGED started
    /\ UNCHANGED << plan, attempt, sessions, waits, result >>
    /\ UNCHANGED << srvVars, regVars, raceVars, auxVars >>

(* driver = webdriver.Chrome(options=options) *)
NewDriver ==
    /\ fpc = "create"
    /\ IF Upstream.kind = "create_fail"
       THEN fpc' = "except" /\ UNCHANGED sessions
       ELSE fpc' = "get" /\ sessions' = sessions \cup {attempt + 1}
    /\ UNCHANGED << plan, attempt, started, waits, result >>
    /\ UNCHANGED << srvVars, regVars, raceVars, auxVars >>

(* driver.get(url); time.sleep(30); page_source = driver.page_source *)
GetPage ==
    /\ fpc = "get"
    /\ fpc' = IF Upstream.kind = "load_fail" THEN "except" ELSE "quit"
    /\ UNCHANGED << plan, attempt, started, sessions, waits, result >>
    /\ UNCHANGED << srvVars, regVars, raceVars, auxVars >>

(* driver.quit() *)
QuitDriver ==
    /\ fpc = "quit"
    /\ sessions' = sessions \ {attempt + 1}
    /\ fpc' = "check"
    /\ UNCHANGED << plan, attempt, started, waits, result >>
    /\ UNCHANGED << srvVars, regVars, raceVars, auxVars >>

(* if "<Station" in page_source: return ... else: print *)
CheckSentinel ==
    /\ fpc = "check"
    /\ IF SentinelFound(Upstream)
       THEN fpc' = "returned" /\ result' = Upstream
       ELSE fpc' = "after" /\ UNCHANGED result
    /\ UNCHANGED << plan, attempt, started, sessions, waits >>
    /\ UNCHANGED << srvVars, regVars, raceVars, auxVars >>

(* except WebDriverException as e: print *)
Except ==
    /\ fpc = "except"
    /\ fpc' = "after"
    /\ UNCHANGED << plan, attempt, started, sessions, waits, result >>
    /\ UNCHANGED << srvVars, regVars, raceVars, auxVars >>

(* if attempt < retries - 1: time.sleep(wait_seconds); then the next index *)
Backoff ==
    /\ fpc = "after"
    /\ waits' = IF NotLastAttempt(attempt)
                THEN Append(waits, [after |-> attempt + 1,
                                    secs |-> WaitSeconds])
                ELSE waits
    /\ attempt' = attempt + 1
    /\ fpc' = "loop"
    /\ UNCHANGED << plan, started, sessions, result >>
    /\ UNCHANGED << srvVars, regVars, raceVars, auxVars >>

InitFetch ==
    /\ plan \in Plans
    /\ fpc = "loop"
    /\ attempt = 0
    /\ started = 0
    /\ sessions = {}
    /\ waits = << >>
    /\ result = Failure("none")

SrvParked == file = << >> /\ disk = {} /\ cfgKey = None /\ last = NoRequest

InitF == InitFetch /\ SrvParked /\ RegParked /\ RaceParked /\ AuxParked
NextFetch ==
    \/ LoopHead \/ NewDriver \/ GetPage \/ QuitDriver
    \/ CheckSentinel \/ Except \/ Backoff
SpecFetch == InitF /\ [][NextFetch]_vars

FetchEnded == fpc \in {"returned", "raised"}
AllFail == \A i \in 1..Retries : IsFailure(plan[i])
TwoFailThenPage ==
    IsFailure(plan[1]) /\ IsFailure(plan[2]) /\ ~IsFailure(plan[3])

(* C1: with retries = 3 no 4th attempt is ever started; when every attempt
   fails the call raises after exactly 3 attempts; when two attempts fail
   and the third finds the marker it returns the third page after exactly 3
   attempts; a call that returned made its last attempt the one whose page
   it returns, and none after it. *)
C1_RetryBound ==
    /\ started <= 3
    /\ FetchEnded /\ AllFail => fpc = "raised" /\ started = 3
    /\ FetchEnded /\ TwoFailThenPage =>
          fpc = "returned" /\ started = 3 /\ result = plan[3]
    /\ fpc = "returned" =>
          /\ result = plan[started] /\ ~IsFailure(result)
          /\ \A i \in 1..(started - 1) : IsFailure(plan[i])
    /\ fpc = "raised" => started = 3 /\ AllFail

C1_Witness ==
    /\ fpc = "returned" /\ TwoFailThenPage /\ started = 3
    /\ plan[1].kind = "no_sentinel" /\ plan[2].kind = "load_fail"

(* C2: at most one browser session of the fetch is open at any time, the
   session of an attempt is closed before the next attempt starts, and no
   session is open when the call returns or raises. *)
C2_SessionsReleased ==
    /\ Cardinality(sessions) <= 1
    /\ fpc \in {"loop", "create"} => sessions = {}
    /\ FetchEnded => sessions = {}

(* ------------- concurrently handled chat events (SpecReg) -------------- *)
(* app.run serves each request in its own thread.  Handler p runs the
   subscribe or unsubscribe branch for huser[p]: register_user and
   unregister_user first read the file, then write it, with no lock. *)
Handlers == 1..NumHandlers

(* users = get_registered_users() *)
RegRead(p) ==
    /\ hpc[p] = "read"
    /\ hsnap' = [hsnap EXCEPT ![p] = get_registered_users(file)]
    /\ hpc' = [hpc EXCEPT ![p] = "write"]
    /\ UNCHANGED << file, hcmd, huser, file0 >>
    /\ UNCHANGED << disk, cfgKey, last, fetchVars, raceVars, auxVars >>

(* the membership test on the list read, and the append or the rewrite *)
RegWrite(p) ==
    /\ hpc[p] = "write"
    /\ file' = IF hcmd[p] = "subscribe"
               THEN register_write(file, hsnap[p], huser[p])
               ELSE unregister_write(file, hsnap[p], huser[p])
    /\ hpc' = [hpc EXCEPT ![p] = "done"]
    /\ UNCHANGED << hcmd, huser, hsnap, file0 >>
    /\ UNCHANGED << disk, cfgKey, last, fetchVars, raceVars, auxVars >>

InitReg ==
    /\ file0 \in NoDupSeqs
    /\ file = file0
    /\ hcmd \in [Handlers -> {"subscribe", "unsubscribe"}]
    /\ huser \in [Handlers -> Users]
    /\ hpc = [p \in Handlers |-> "read"]
    /\ hsnap = [p \in Handlers |-> << >>]
    /\ disk = {} /\ cfgKey = None /\ last = NoRequest

InitR == InitReg /\ FetchParked /\ RaceParked /\ AuxParked
NextReg == \E p \in Handlers : RegRead(p) \/ RegWrite(p)
SpecReg == InitR /\ [][NextReg]_vars

(* The files that running the calls of the handlers in S one after the
   other, in any order, can leave. *)
RECURSIVE SerialOutcomes(_, _)
SerialOutcomes(f, S) ==
    IF S = {} THEN {f}
    ELSE UNION { SerialOutcomes(
                     IF hcmd[p] = "subscribe" THEN register_user(f, huser[p])
                     ELSE unregister_user(f, huser[p]), S \ {p}) : p \in S }

(* C3: whatever the interleaving of the concurrent register_user and
   unregister_user calls, the file they leave is the file some serial order
   of the calls leaves. *)
C3_NoLostUpdate ==
    (\A p \in Handlers : hpc[p] = "done") =>
        file \in SerialOutcomes(file0, Handlers)

(* ------------------ concurrent pipeline runs (SpecRace) ---------------- *)
(* Run r is a send_daily_weather_update or a refresh branch (the two run
   the same statements); its steps are the statements that touch the local
   disk.  The clock matters until the last run has started.  owner[name] is the run that
   last wrote the file of that name, interference the accesses a run made to
   a file another run wrote. *)
Runs == 1..NumRuns
Names == { Filename(t) : t \in Times }
Access(r, op, name) ==
    IF Exists(disk, name) /\ owner[name] # r
    THEN {[actor |-> r, op |-> op, owner |-> owner[name]]} ELSE {}
RaceFrame == UNCHANGED << file, cfgKey, last, fetchVars, regVars, auxVars >>
Step(r, step, ok) ==
    ktrace' = [ktrace EXCEPT ![r] = Append(@, [step |-> step, ok |-> ok])]

AfterParseAlways(raised) == "upload"

(* an exception in the try block skips the rest of it: the finally block
   runs next *)
AfterFetch(fetched) == IF fetched = Raise THEN "cleanup" ELSE "parse"
AfterParse(raised) == IF raised THEN "cleanup" ELSE "upload"

Tick ==
    /\ now < MaxTime
    /\ \E r \in Runs : kpc[r] = "idle"
    /\ now' = now + 1
    /\ UNCHANGED << disk, kpc, kname, kxml, kstage, ksent, owner,
                    interference, ktrace >>
    /\ RaceFrame

(* now = datetime.now(...); filename = f"weather_{timestamp}.csv" *)
StartRun(r) ==
    /\ kpc[r] = "idle"
    /\ kname' = [kname EXCEPT ![r] = Filename(now)]
    /\ kpc' = [kpc EXCEPT ![r] = "fetch"]
    /\ UNCHANGED << disk, now, kxml, kstage, ksent, owner, interference,
                    ktrace >>
    /\ RaceFrame

(* xml_data = fetch_weather_data() *)
FetchStep(r) ==
    /\ kpc[r] = "fetch"
    /\ \E fetched \in FetchResults :
          /\ kxml' = [kxml EXCEPT ![r] = fetched]
          /\ kpc' = [kpc EXCEPT ![r] = AfterFetch(fetched)]
          /\ Step(r, "fetch", fetched # Raise)
          /\ IF fetched = Raise
             THEN kstage' = [kstage EXCEPT ![r] = "fetch"]
             ELSE UNCHANGED kstage
    /\ UNCHANGED << disk, now, kname, ksent, owner, interference >>
    /\ RaceFrame

(* parse_and_save_csv(xml_data, filename) *)
ParseStep(r) ==
    /\ kpc[r] = "parse"
    /\ \E writeFails \in WriteInputs(kxml[r]) :
          LET p == parse_and_save_csv(disk, kxml[r], kname[r], writeFails) IN
          /\ disk' = p.disk
          /\ IF kxml[r].wf
             THEN /\ owner' = [owner EXCEPT ![kname[r]] = r]
                  /\ interference' =
                        interference \cup Access(r, "write", kname[r])
             ELSE UNCHANGED << owner, interference >>
          /\ kpc' = [kpc EXCEPT ![r] = AfterParse(p.raised)]
          /\ Step(r, "parse", ~p.raised)
          /\ IF p.raised
             THEN kstage' = [kstage EXCEPT ![r] = "parse"]
             ELSE UNCHANGED kstage
    /\ UNCHANGED << now, kname, kxml, ksent >>
    /\ RaceFrame

(* file_url = upload_to_drive(filename) *)
UploadStep(r) ==
    /\ kpc[r] = "upload"
    /\ \E up \in UploadOutcomes :
          LET u == upload_to_drive(disk, kname[r], up) IN
          /\ kstage' = [kstage EXCEPT ![r] = IF u.raised THEN "upload"
                                             ELSE "none"]
          /\ Step(r, "upload", ~u.raised)
    /\ interference' = interference \cup Access(r, "upload", kname[r])
    /\ kpc' = [kpc EXCEPT ![r] = "cleanup"]
    /\ UNCHANGED << disk, now, kname, kxml, ksent, owner >>
    /\ RaceFrame

(* finally: if os.path.exists(filename): os.remove(filename) *)
CleanupStep(r) ==
    /\ kpc[r] = "cleanup"
    /\ disk' = RemoveIfExists(disk, kname[r])
    /\ interference' = interference \cup Access(r, "delete", kname[r])
    /\ kpc' = [kpc EXCEPT ![r] = "notify"]
    /\ Step(r, "remove", Exists(disk, kname[r]))
    /\ UNCHANGED << now, kname, kxml, kstage, ksent, owner >>
    /\ RaceFrame

(* send_to_registered_users(message) or reply_message(..., reply) *)
NotifyStep(r) ==
    /\ kpc[r] = "notify"
    /\ ksent' = [ksent EXCEPT ![r] = IF kstage[r] = "none" THEN "link"
                                     ELSE "error"]
    /\ kpc' = [kpc EXCEPT ![r] = "done"]
    /\ Step(r, IF kstage[r] = "none" THEN "send_link" ELSE "send_error", TRUE)
    /\ UNCHANGED << disk, now, kname, kxml, kstage, owner,
                    interference >>
    /\ RaceFrame

InitRace ==
    /\ now = 0
    /\ kpc = [r \in Runs |-> "idle"]
    /\ kname = [r \in Runs |-> NoName]
    /\ kxml = [r \in Runs |-> Raise]
    /\ kstage = [r \in Runs |-> "none"]
    /\ ksent = [r \in Runs |-> "none"]
    /\ owner = [name \in Names |-> 0]
    /\ interference = {}
    /\ ktrace = [r \in Runs |-> << >>]

InitK == InitRace /\ SrvParked /\ FetchParked /\ RegParked /\ AuxParked
NextRace ==
    \/ Tick
    \/ \E r \in Runs : StartRun(r)
    \/ \E r \in Runs : FetchStep(r)
    \/ \E r \in Runs : ParseStep(r)
    \/ \E r \in Runs : UploadStep(r)
    \/ \E r \in Runs : CleanupStep(r)
    \/ \E r \in Runs : NotifyStep(r)
SpecRace == InitK /\ [][NextRace]_vars

(* C8: concurrent runs have distinct artifact names, and no run writes over,
   uploads or deletes a file that another run wrote. *)
C8_RunsIndependent ==
    /\ \A r1, r2 \in Runs :
          r1 # r2 /\ kname[r1] # NoName /\ kname[r2] # NoName =>
              kname[r1] # kname[r2]
    /\ interference = {}

(* ------------------------- backoff of the fetch ------------------------ *)
ExpectedWaits(k) == [i \in 1..k |-> [after |-> i, secs |-> WaitSeconds]]
InAttempt == fpc \in {"create", "get", "quit", "check", "except", "after"}

(* C19: one backoff sleep of wait_seconds follows each failed attempt that
   is not the last, whether the marker was missing or the driver failed:
   while attempt k runs, and when it returns, the sleeps so far are exactly
   those after attempts 1..k-1; after the last attempt no sleep is added. *)
C19_BackoffBetweenAttempts ==
    /\ InAttempt \/ fpc = "returned" => waits = ExpectedWaits(started - 1)
    /\ fpc = "loop" /\ InRange(attempt) => waits = ExpectedWaits(started)
    /\ fpc = "raised" \/ (fpc = "loop" /\ ~InRange(attempt)) =>
          waits = ExpectedWaits(2)

C19_Witness ==
    /\ fpc = "raised" /\ Len(waits) = 2
    /\ plan[1].kind = "no_sentinel" /\ plan[2].kind = "load_fail"
    /\ plan[3].kind = "create_fail"

(* ------------- subscribe / unsubscribe messages (SpecSub) -------------- *)
(* Subscribe and unsubscribe messages (and texts that are no command),
   arriving one at a time at an empty registry.  lastCmd[u] is the text of
   the last subscribe or unsubscribe from u that handle_message handled to
   its end. *)
SubMessage(sigOK, user_id, text, regFails) ==
    /\ callback(sigOK, user_id, text, 0, Raise, FALSE, "ok", regFails)
    /\ lastCmd' = IF sigOK /\ ~regFails /\ text # "other"
                  THEN [lastCmd EXCEPT ![user_id] = text]
                  ELSE lastCmd
    /\ UNCHANGED << doc, out, tpc >>

InitSub ==
    /\ SrvParked /\ FetchParked /\ RegParked /\ RaceParked
    /\ lastCmd = [u \in Users |-> "none"]
    /\ doc = << >> /\ out = << >> /\ tpc = "parked"

NextSub ==
    \E sigOK \in BOOLEAN, user_id \in Users,
       text \in {"subscribe", "unsubscribe", "other"} :
    \E regFails \in IF sigOK /\ text # "other" THEN BOOLEAN ELSE {FALSE} :
        SubMessage(sigOK, user_id, text, regFails)
SpecSub == InitSub /\ [][NextSub]_vars

(* C18: the subscriber file never holds an identifier twice, and it holds
   u exactly when the last subscribe-or-unsubscribe message handled for u
   was a subscribe. *)
C18_RegistryMatchesLastCommand ==
    /\ NoDup(file)
    /\ \A u \in Users : InSeq(u, file) <=> lastCmd[u] = "subscribe"

C18_Witness ==
    /\ lastCmd[1] = "unsubscribe" /\ lastCmd[2] = "subscribe"
    /\ file = << 2 >>
    /\ last.text = "subscribe" /\ InSeq(last.user, last.fileBefore)

(* ----------------------- one pipeline run (SpecRun) -------------------- *)
(* Run 1 alone: the statements of send_daily_weather_update (and of the
   refresh branch) in the order the code executes them. *)
NextRun ==
    \/ Tick
    \/ StartRun(1)
    \/ FetchStep(1)
    \/ ParseStep(1)
    \/ UploadStep(1)
    \/ CleanupStep(1)
    \/ NotifyStep(1)
SpecRun == InitK /\ [][NextRun]_vars

IsSend(e) == e.step \in {"send_link", "send_error"}

(* C17: in a run the first step is the fetch, the table is built only after
   a successful fetch, the upload starts only after a successful fetch and
   a successful parse, the local file is removed only after the upload
   ended or a step failed, a link is sent only after a successful upload,
   and the run sends its message exactly once, after the cleanup, as its
   last step. *)
C17_PipelineOrder ==
    LET t == ktrace[1] IN
    /\ \A i \in 1..Len(t) :
          /\ t[i].step = "fetch" <=> i = 1
          /\ t[i].step = "parse" => i = 2 /\ t[1].ok
          /\ t[i].step = "upload" =>
                i = 3 /\ t[1].ok /\ t[2].step = "parse" /\ t[2].ok
          /\ t[i].step = "remove" =>
                /\ i > 1
                /\ t[i - 1].step = "upload" \/ ~t[i - 1].ok
                /\ \A j \in 1..(i - 1) :
                      t[j].step \in {"fetch", "parse", "upload"}
          /\ t[i].step = "send_link" =>
                \E j \in 1..(i - 1) : t[j].step = "upload" /\ t[j].ok
          /\ IsSend(t[i]) => i = Len(t) /\ t[i - 1].step = "remove"
    /\ kpc[1] = "done" => IsSend(t[Len(t)])

C17_Witness ==
    /\ kpc[1] = "done" /\ ksent[1] = "link"
    /\ Len(ktrace[1]) = 5 /\ ktrace[1][4] = [step |-> "remove", ok |-> TRUE]

(* ===================== field flattener, table builder ================== *)
(* A string is the sequence of its character codes, so that joining with
   "_" and comparing for sorted() are what they are on Python strings.  A
   long name is spelled by the initial of each of its words. *)
Ord == [L |-> 76, O |-> 79, R |-> 82, S |-> 83, T |-> 84, U |-> 85,
        W |-> 87, us |-> 95, sp |-> 32, d1 |-> 49, d2 |-> 50]

Station == << Ord.S >>
WmoStationNumber == << Ord.W >>
Observation_Rainfall == << Ord.O, Ord.us, Ord.R >>
Observation_Rainfall_Unit == << Ord.O, Ord.us, Ord.R, Ord.us, Ord.U >>

(* priority_fields = ['WmoStationNumber', 'Observation_Rainfall',
                      'Observation_Rainfall_Unit'] *)
priority_fields ==
    << WmoStationNumber, Observation_Rainfall, Observation_Rainfall_Unit >>

(* str < str *)
RECURSIVE LexLess(_, _)
LexLess(a, b) ==
    IF b = << >> THEN FALSE
    ELSE IF a = << >> THEN TRUE
    ELSE IF Head(a) = Head(b) THEN LexLess(Tail(a), Tail(b))
    ELSE Head(a) < Head(b)

(* str.strip(): drop the leading and the trailing blanks *)
RECURSIVE LStrip(_)
LStrip(t) ==
    IF t # << >> /\ Head(t) = Ord.sp THEN LStrip(Tail(t)) ELSE t
RECURSIVE RStrip(_)
RStrip(t) ==
    IF t # << >> /\ t[Len(t)] = Ord.sp THEN RStrip(SubSeq(t, 1, Len(t) - 1))
    ELSE t
Strip(t) == RStrip(LStrip(t))

(* An element: tag, text (empty for None), attrib as the list of its
   (name, value) items, and the child elements in document order. *)
Elem(tag, text, attrib, kids) ==
    [tag |-> tag, text |-> text, attrib |-> attrib, kids |-> kids]

(* A dict: its items in insertion order, one per key. *)
DictHas(d, k) == \E i \in 1..Len(d) : d[i].k = k
DictGet(d, k) == d[CHOOSE i \in 1..Len(d) : d[i].k = k].v
DictKeys(d) == [i \in 1..Len(d) |-> d[i].k]

DictSetKeepFirst(d, k, v) ==
    IF DictHas(d, k) THEN d ELSE Append(d, [k |-> k, v |-> v])

(* data[k] = v *)
DictSet(d, k, v) ==
    IF DictHas(d, k)
    THEN [i \in 1..Len(d) |-> IF d[i].k = k THEN [k |-> k, v |-> v]
                              ELSE d[i]]
    ELSE Append(d, [k |-> k, v |-> v])

(* data.update(e) *)
RECURSIVE DictUpdate(_, _)
DictUpdate(d, e) ==
    IF e = << >> THEN d
    ELSE DictUpdate(DictSet(d, Head(e).k, Head(e).v), Tail(e))

(* f"{prefix}{tag}" if prefix == "" else f"{prefix}_{tag}" *)
KeyPrefix(prefix, tag) ==
    IF prefix = << >> THEN tag ELSE prefix \o << Ord.us >> \o tag

(* for attr_key, attr_val in child.attrib.items():
       data[f"{key_prefix}_{attr_key}"] = attr_val *)
RECURSIVE SetAttribs(_, _, _)
SetAttribs(data, key_prefix, items) ==
    IF items = << >> THEN data
    ELSE SetAttribs(DictSet(data, key_prefix \o << Ord.us >> \o Head(items).k,
                            Head(items).v),
                    key_prefix, Tail(items))

(* if child.text and child.text.strip(): data[key_prefix] = child.text.strip() *)
SetText(data, key_prefix, text) ==
    IF Strip(text) # << >> THEN DictSet(data, key_prefix, Strip(text))
    ELSE data

RECURSIVE ExtractChildren(_, _, _)
RECURSIVE extract_all_fields(_, _)

(* the body of "for child in elem", for the children from kids on *)
ExtractChildren(kids, prefix, data) ==
    IF kids = << >> THEN data
    ELSE LET child == Head(kids)
             key_prefix == KeyPrefix(prefix, child.tag) IN
         ExtractChildren(
             Tail(kids), prefix,
             DictUpdate(SetText(SetAttribs(data, key_prefix, child.attrib),
                                key_prefix, child.text),
                        extract_all_fields(child, key_prefix)))

extract_all_fields(elem, prefix) == ExtractChildren(elem.kids, prefix, << >>)

(* root.findall(".//Station"): the Station elements below the root, at any
   depth, in document order *)
RECURSIVE Below(_)
Below(kids) ==
    IF kids = << >> THEN << >>
    ELSE << Head(kids) >> \o Below(Head(kids).kids) \o Below(Tail(kids))

findall_children(root) == SelectSeq(root.kids, LAMBDA e : e.tag = Station)

findall_Station(root) == SelectSeq(Below(root.kids), LAMBDA e : e.tag = Station)

(* all_fields.update(station_data.keys()): all_fields in the order the keys
   were first seen (the set has an iteration order of its own) *)
RECURSIVE AddKeys(_, _)
AddKeys(all_fields, keys) ==
    IF keys = << >> THEN all_fields
    ELSE AddKeys(IF InSeq(Head(keys), all_fields) THEN all_fields
                 ELSE Append(all_fields, Head(keys)), Tail(keys))

RECURSIVE AllFields(_)
AllFields(rows) ==
    IF rows = << >> THEN << >>
    ELSE AddKeys(AllFields(SubSeq(rows, 1, Len(rows) - 1)),
                 DictKeys(rows[Len(rows)]))

(* sorted(...) *)
RECURSIVE Insert(_, _)
Insert(x, srt) ==
    IF srt = << >> THEN << x >>
    ELSE IF LexLess(Head(srt), x) THEN << Head(srt) >> \o Insert(x, Tail(srt))
    ELSE << x >> \o srt
RECURSIVE sorted(_)
sorted(fields) ==
    IF fields = << >> THEN << >>
    ELSE Insert(Head(fields), sorted(Tail(fields)))

remaining_fields_all(all_fields) == sorted(all_fields)

remaining_fields_unsorted(all_fields) ==
    SelectSeq(all_fields, LAMBDA f : ~InSeq(f, priority_fields))

(* sorted(f for f in all_fields if f not in priority_fields) *)
remaining_fields(all_fields) ==
    sorted(SelectSeq(all_fields, LAMBDA f : ~InSeq(f, priority_fields)))

(* csv.DictWriter(...).writerow(row): one value per field name, '' (the
   default restval) for a field the row lacks *)
writerow(fieldnames, row) ==
    [j \in 1..Len(fieldnames) |->
        IF DictHas(row, fieldnames[j]) THEN DictGet(row, fieldnames[j])
        ELSE << >>]

(* parse_and_save_csv, lines 110-127: the rows, the header and the lines
   written for the parsed document root *)
csv_table(root) ==
    LET stations == findall_Station(root)
        rows == [i \in 1..Len(stations) |->
                    extract_all_fields(stations[i], << >>)]
        fieldnames == priority_fields \o remaining_fields(AllFields(rows)) IN
    [rows |-> rows, fieldnames |-> fieldnames,
     lines |-> [i \in 1..Len(rows) |-> writerow(fieldnames, rows[i])]]

(* --------------------------- SpecTable --------------------------------- *)
(* The documents the table is built from. *)
One == << Ord.d1 >>
Padded == << Ord.sp, Ord.d2, Ord.sp >>
Blank == << Ord.sp >>
NoText == << >>
Attr(name, value) == << [k |-> name, v |-> value] >>
SeqsUpTo(S, n) == UNION { [1..m -> S] : m \in 0..n }

Leaves ==
    { Elem(<< Ord.R >>, One, << >>, << >>),
      Elem(<< Ord.R >>, NoText, Attr(<< Ord.U >>, << Ord.d2 >>), << >>),
      Elem(<< Ord.L >>, One, << >>, << >>) }

(* The children of a station: a number, or an Observation element (its tag
   also spelled with an underscore, as "Observation_Rainfall") with or
   without text, an attribute and a child. *)
Fields ==
    { Elem(WmoStationNumber, t, << >>, << >>) : t \in {One, Padded} }
    \cup { Elem(tag, t, a, k) :
             tag \in {<< Ord.O >>, Observation_Rainfall},
             t \in {Blank, Padded},
             a \in {<< >>, Attr(<< Ord.R >>, << >>)},
             k \in {<< >>} \cup { << l >> : l \in Leaves } }

SimpleFields ==
    { Elem(WmoStationNumber, One, << >>, << >>),
      Elem(<< Ord.L >>, One, << >>, << >>),
      Elem(<< Ord.O >>, Padded, << >>,
           << Elem(<< Ord.R >>, One, << >>, << >>) >>),
      Elem(<< Ord.O >>, Blank, << >>,
           << Elem(<< Ord.R >>, NoText, Attr(<< Ord.U >>, << Ord.d2 >>),
                   << >>) >>) }

StationOf(kids) == Elem(Station, NoText, Attr(<< Ord.d1 >>, One), kids)
RichStations == { StationOf(k) : k \in SeqsUpTo(Fields, MaxKids) }
SimpleStations == { StationOf(k) : k \in SeqsUpTo(SimpleFields, 1) }

(* What the root holds: stations, a station inside a wrapper element, a
   station inside a station, an element that is no station. *)
Entries ==
    SimpleStations
    \cup { Elem(<< Ord.T >>, NoText, << >>, << st >>) :
             st \in { StationOf(k) : k \in {<< >>} \cup
                        { << f >> : f \in {Elem(<< Ord.L >>, One, << >>,
                                               << >>)} } } }
    \cup { StationOf(<< Elem(WmoStationNumber, One, << >>, << >>),
                       StationOf(<< Elem(<< Ord.L >>, One, << >>, << >>) >>)
                    >>),
           Elem(<< Ord.L >>, One, << >>, << >>) }

Docs ==
    { Elem(<< Ord.T >>, NoText, << >>, << st >>) : st \in RichStations }
    \cup { Elem(tag, NoText, << >>, k) :
             tag \in {<< Ord.T >>, Station},
             k \in SeqsUpTo(Entries, MaxRecords) }

NoTable == [rows |-> << >>, fieldnames |-> << >>, lines |-> << >>]

(* parse_and_save_csv applied to the document *)
ParseAndSave ==
    /\ tpc = "parsed"
    /\ out' = csv_table(doc)
    /\ tpc' = "written"
    /\ UNCHANGED << doc, lastCmd, srvVars, fetchVars, regVars, raceVars >>

InitTable ==
    /\ doc \in Docs
    /\ out = NoTable
    /\ tpc = "parsed"
    /\ lastCmd = << >>
    /\ SrvParked /\ FetchParked /\ RegParked /\ RaceParked

NextTable == ParseAndSave
SpecTable == InitTable /\ [][NextTable]_vars

Written == tpc = "written"
Range(sq) == { sq[i] : i \in 1..Len(sq) }

(* C11: the header is the three priority fields in their declared order,
   then every other observed key in strictly ascending lexicographic
   order, no key twice; every line has one value per header field, the
   record's value where it has the key and the empty string where not. *)
C11_SchemaAndRows ==
    Written =>
        LET fn == out.fieldnames
            observed == UNION { Range(DictKeys(out.rows[i])) :
                                  i \in 1..Len(out.rows) } IN
        /\ Len(fn) >= 3 /\ SubSeq(fn, 1, 3) = priority_fields
        /\ \A i, j \in 1..Len(fn) : i # j => fn[i] # fn[j]
        /\ \A i \in 4..(Len(fn) - 1) : LexLess(fn[i], fn[i + 1])
        /\ Range(fn) = observed \cup Range(priority_fields)
        /\ Len(out.lines) = Len(out.rows)
        /\ \A i \in 1..Len(out.lines) :
              /\ Len(out.lines[i]) = Len(fn)
              /\ \A j \in 1..Len(fn) :
                    IF fn[j] \in Range(DictKeys(out.rows[i]))
                    THEN \E x \in 1..Len(out.rows[i]) :
                            /\ out.rows[i][x].k = fn[j]
                            /\ out.rows[i][x].v = out.lines[i][j]
                    ELSE out.lines[i][j] = << >>

C11_Witness ==
    /\ Written /\ Len(out.rows) = 2 /\ Len(out.fieldnames) >= 5
    /\ DictHas(out.rows[1], Observation_Rainfall)
    /\ ~DictHas(out.rows[2], Observation_Rainfall)
    /\ out.lines[2][2] = << >>

(* The writes of a subtree in document order, told without a dict: for each
   child its attributes, then its trimmed non-blank text, then the writes of
   its descendants; path is the list of the tags from the node down. *)
RECURSIVE JoinPath(_)
JoinPath(path) ==
    IF Len(path) = 1 THEN path[1]
    ELSE JoinPath(SubSeq(path, 1, Len(path) - 1)) \o << Ord.us >>
         \o path[Len(path)]

NonBlank(t) == { i \in 1..Len(t) : t[i] # Ord.sp }
Min(S) == CHOOSE x \in S : \A y \in S : x <= y
Max(S) == CHOOSE x \in S : \A y \in S : x >= y
Trimmed(t) == SubSeq(t, Min(NonBlank(t)), Max(NonBlank(t)))

RECURSIVE Writes(_, _)
Writes(kids, path) ==
    IF kids = << >> THEN << >>
    ELSE LET c == Head(kids)
             key == JoinPath(Append(path, c.tag)) IN
         [i \in 1..Len(c.attrib) |->
             [k |-> key \o << Ord.us >> \o c.attrib[i].k,
              v |-> c.attrib[i].v]]
         \o (IF NonBlank(c.text) # {}
             THEN << [k |-> key, v |-> Trimmed(c.text)] >> ELSE << >>)
         \o Writes(c.kids, Append(path, c.tag))
         \o Writes(Tail(kids), path)

IsLastWrite(w, j) == \A j2 \in (j + 1)..Len(w) : w[j2].k # w[j].k

(* C12: the row of a station holds exactly the keys written, and for each
   key the value of the last write in document order; a later sibling
   without text writes nothing and so leaves an earlier text in place. *)
C12_LastWriteWins ==
    Written =>
        LET stations == findall_Station(doc) IN
        \A i \in 1..Len(stations) :
            LET w == Writes(stations[i].kids, << >>)
                d == out.rows[i] IN
            /\ Range(DictKeys(d)) = { w[j].k : j \in 1..Len(w) }
            /\ \A j \in 1..Len(w) :
                  IsLastWrite(w, j) => DictGet(d, w[j].k) = w[j].v

(* <O> 2 <R>1</R></O> then <O R=""> </O>: the path O/R and the attribute
   O.R meet in the key O_R, and the second O has no text. *)
C12_Witness ==
    /\ Written /\ Len(out.rows) = 1
    /\ Len(doc.kids) = 1 /\ doc.kids[1].tag = Station
    /\ Len(doc.kids[1].kids) = 2
    /\ doc.kids[1].kids[1].tag = << Ord.O >>
    /\ doc.kids[1].kids[1].kids # << >>
    /\ doc.kids[1].kids[2] = Elem(<< Ord.O >>, Blank, Attr(<< Ord.R >>, << >>),
                                  << >>)
    /\ DictHas(out.rows[1], Observation_Rainfall)
    /\ DictGet(out.rows[1], Observation_Rainfall) = << >>
    /\ DictHas(out.rows[1], << Ord.O >>)
    /\ DictGet(out.rows[1], << Ord.O >>) = << Ord.d2 >>
    /\ \E j \in 1..Len(Writes(doc.kids[1].kids, << >>)) :
          Writes(doc.kids[1].kids, << >>)[j] =
              [k |-> Observation_Rainfall, v |-> One]

(* The position of an element below the root: the child indices on the way
   to it; document order is the order of these lists. *)
RECURSIVE AllPaths(_)
AllPaths(e) ==
    {<< >>} \cup UNION { { << i >> \o q : q \in AllPaths(e.kids[i]) } :
                           i \in 1..Len(e.kids) }
RECURSIVE ElemAt(_, _)
ElemAt(e, path) ==
    IF path = << >> THEN e ELSE ElemAt(e.kids[Head(path)], Tail(path))
StationPaths ==
    { q \in AllPaths(doc) \ {<< >>} : ElemAt(doc, q).tag = Station }
Rank(q) == 1 + Cardinality({ q2 \in StationPaths : LexLess(q2, q) })

(* C14: one row and one line per Station element below the root, at any
   depth, in document order: the row at position n is the flattening of
   the n-th Station element. *)
C14_RowsInDocumentOrder ==
    Written =>
        /\ Len(out.rows) = Cardinality(StationPaths)
        /\ Len(out.lines) = Cardinality(StationPaths)
        /\ \A q \in StationPaths :
              out.rows[Rank(q)] = extract_all_fields(ElemAt(doc, q), << >>)

(* Two stations without a field, one of them inside a wrapper element:
   two equal, empty rows and two lines. *)
C14_Witness ==
    /\ Written /\ Len(out.rows) = 2 /\ Len(out.lines) = 2
    /\ \E q \in StationPaths : Len(q) = 2
    /\ out.rows[1] = << >> /\ out.rows[2] = << >>

Perms(n) == { f \in [1..n -> 1..n] : \A i, j \in 1..n : i # j => f[i] # f[j] }
Permuted(root, f) ==
    [root EXCEPT !.kids = [i \in 1..Len(root.kids) |-> root.kids[f[i]]]]

(* C15: the header is the same for every order of the records under the
   root. *)
C15_SchemaOrderIndependent ==
    Written =>
        \A f \in Perms(Len(doc.kids)) :
            csv_table(Permuted(doc, f)).fieldnames = out.fieldnames

C15_Witness ==
    /\ Written /\ Len(doc.kids) = 2 /\ Len(out.rows) = 2
    /\ DictHas(out.rows[1], << Ord.O >>) /\ ~DictHas(out.rows[1], << Ord.L >>)
    /\ DictHas(out.rows[2], << Ord.L >>) /\ ~DictHas(out.rows[2], << Ord.O >>)
    /\ out.fieldnames[4] = << Ord.L >>

====
